---- MODULE Spec2Model ----
(***************************************************************************)
(* PriorityMultiLock (flow/include/flow/PriorityMultiLock.actor.h): a      *)
(* multi-holder lock with a concurrency limit, per-priority FIFO waiter    *)
(* queues and a weighted dispatch loop (the runner actor).                 *)
(*                                                                         *)
(* Flow is single threaded.  Promise::send and AsyncTrigger::trigger run   *)
(* the waiting actor inline, so the interleaving inside an operation is    *)
(* the re-entrancy at w.lockPromise.send(lock) (line 340): the waiter's    *)
(* continuation runs there, and may call lock(), release(), halt() or      *)
(* kill() before control returns to the runner.  The model gives the       *)
(* runner the position "send" for that, and lets every public operation    *)
(* run in it.  The other place is p.queue.clear() in kill() (line 166):    *)
(* the continuation of a destroyed Waiter runs there and may call lock()   *)
(* again, which kill() takes as an input.                                  *)
(***************************************************************************)
EXTENDS Integers, Sequences, FiniteSets, TLC

\* Bounds of the model: the largest configured concurrency, and the number of
\* requests (queued, granted or not yet destroyed) the callers have at a time.
\* Four requests are what it takes for lock() to be refused by the capacity
\* test with a slot free: two holders, and two waiters of the other priority.
MaxConcurrency == 2
MaxRequests == 4

\* Priority ids start at 0 and are sequential (line 49).
Priorities == {0, 1}
\* The configured weights (constructor, lines 93-97).  The code treats the
\* priorities alike, so <<2, 1>> adds nothing to <<1, 2>>.
WeightTables == {[q \in Priorities |-> 1], [q \in Priorities |-> q + 1]}
\* Identities of the Waiter / Lock objects the callers create, reused once
\* destroyed.  The callers of Spec use at most MaxRequests + 1 of them, those
\* of ShareSpec (four holders and a backlog on both priorities) all of them.
Ids == 1..(MaxRequests + 5)

\* waitingPriorities.end(), the runner's cursor when it rests on no priority.
EndIt == -1
\* The cursor after undefined behaviour (dereferencing end(), a scan that never ends).
Stuck == -2
\* No Waiter is being resolved.
NoId == 0

VARIABLES
    concurrency,          \* int concurrency
    available,            \* int available
    waiting,              \* int waiting
    totalPendingWeights,  \* int totalPendingWeights
    killed,               \* bool killed
    weight,               \* priorities[n].weight
    runners,              \* priorities[n].runners
    queue,                \* priorities[n].queue, a sequence of request ids
    waitingPriorities,    \* the intrusive list, a sequence of priorities
    fRunner,              \* position of the runner actor
    brokenOnDestruct,     \* "unset", or "broken" once halt() has reset it
    p,                    \* the runner's cursor into waitingPriorities
    cur,                  \* the request the runner is resolving (w, lock, pPriority)
    cap,                  \* currentCapacity(p->weight) as line 316 found it for cur
    req,                  \* per request id: its state and priority
    last                  \* what the most recent call gave its caller

vars == <<concurrency, available, waiting, totalPendingWeights, killed, weight,
          runners, queue, waitingPriorities, fRunner, brokenOnDestruct, p, cur,
          cap, req, last>>

\* Everything but the caller's view of the last call.
pml == <<concurrency, available, waiting, totalPendingWeights, killed, weight,
         runners, queue, waitingPriorities, fRunner, brokenOnDestruct, p, cur,
         cap, req>>

\* The object's fields as one record, the value the operations transform.
S ==
    [concurrency |-> concurrency, available |-> available, waiting |-> waiting,
     totalPendingWeights |-> totalPendingWeights, killed |-> killed,
     weight |-> weight, runners |-> runners, queue |-> queue,
     waitingPriorities |-> waitingPriorities, fRunner |-> fRunner,
     brokenOnDestruct |-> brokenOnDestruct, p |-> p, cur |-> cur, cap |-> cap,
     req |-> req]

Commit(t) ==
    /\ concurrency' = t.concurrency
    /\ available' = t.available
    /\ waiting' = t.waiting
    /\ totalPendingWeights' = t.totalPendingWeights
    /\ killed' = t.killed
    /\ weight' = t.weight
    /\ runners' = t.runners
    /\ queue' = t.queue
    /\ waitingPriorities' = t.waitingPriorities
    /\ fRunner' = t.fRunner
    /\ brokenOnDestruct' = t.brokenOnDestruct
    /\ p' = t.p
    /\ cur' = t.cur
    /\ cap' = t.cap
    /\ req' = t.req

RequestStates ==
    {"free", "queued", "granted", "dropped", "held", "resolved", "broken"}

\* A request that left the lock's bookkeeping keeps no priority.
Ended(st) == [st |-> st, prio |-> 0]

\* Lock and Waiter objects that are resolved and only wait to be destroyed.  They
\* have no effect on the lock any more; the callers destroy them before the
\* next operation that changes the lock, which keeps the state space small
\* without losing any behaviour of the lock itself.
Inert(s) == {i \in Ids : i # s.cur /\ s.req[i].st \in {"resolved", "broken"}}

\* The request the runner is resolving keeps its identity until send returns.
FreeIds(s) == {i \in Ids : i # s.cur /\ s.req[i].st = "free"}
Live(s) == {i \in Ids : i = s.cur \/ s.req[i].st # "free"}
NewId(s) == CHOOSE i \in FreeIds(s) : \A j \in FreeIds(s) : i <= j

----------------------------------------------------------------------------
\* The one-shot signal of the runtime (Promise<Void> of a Lock).

\* Promise::canBeSet: no value or error has been sent and a copy is alive.
canBeSet(r) == r.st \in {"granted", "dropped", "held"}

\* Lock::isLocked
isLocked(r) == canBeSet(r)

----------------------------------------------------------------------------
\* Helpers of the intrusive list.

begin(wp) == IF wp = <<>> THEN EndIt ELSE Head(wp)

InList(wp, c) == \E i \in 1..Len(wp) : wp[i] = c

\* ++p on an iterator that points at a linked node
listNext(wp, c) ==
    LET i == CHOOSE k \in 1..Len(wp) : wp[k] = c
    IN IF i = Len(wp) THEN EndIt ELSE wp[i + 1]

\* waitingPriorities.erase(p), without the iterator it returns
listErase(wp, c) == SelectSeq(wp, LAMBDA x : x # c)

\* The elements of a set of numbers in increasing order, and the sequences
\* f[q] for the q of qs, one after the other (for (auto& p : priorities)).
RECURSIVE SetToSeq(_)
SetToSeq(D) ==
    IF D = {} THEN <<>>
    ELSE LET x == CHOOSE y \in D : \A z \in D : y <= z
         IN <<x>> \o SetToSeq(D \ {x})

RECURSIVE Concat(_, _)
Concat(f, qs) == IF qs = <<>> THEN <<>> ELSE f[Head(qs)] \o Concat(f, Tail(qs))

----------------------------------------------------------------------------
\* currentCapacity that rounds down.
currentCapacityFloor(s, w) ==
    IF s.totalPendingWeights > 0
    THEN (w * s.concurrency) \div s.totalPendingWeights
    ELSE 0

\* currentCapacity: ceil((float)weight / totalPendingWeights * concurrency).
\* For the operands of this model (and for all weights <= 12, sums < 40 and
\* concurrency <= 12) the float evaluation equals the exact integer ceiling.
\* It is only called with totalPendingWeights > 0 (CapacityDefined).
currentCapacity(s, w) ==
    IF s.totalPendingWeights > 0
    THEN ((w * s.concurrency) + s.totalPendingWeights - 1) \div s.totalPendingWeights
    ELSE 0

\* handleRelease after wait(holder) returned or threw: lines 264-273, with the
\* trigger delivered to the runner when it waits for it.
RECURSIVE runnerLoop(_)

trigger(s) == IF s.fRunner = "waitTrigger" THEN runnerLoop(s) ELSE s

\* handleRelease that forgets priority->runners -= 1.
handleReleaseKeepsRunner(s, pr) ==
    LET s1 == [s EXCEPT !.available = @ + 1]
    IN IF s1.waiting > 0 THEN trigger(s1) ELSE s1

\* handleRelease that does not wake the runner (lines 271-273 missing).
handleReleaseNoWake(s, pr) ==
    [s EXCEPT !.available = @ + 1, !.runners[pr] = @ - 1]

handleRelease(s, pr) ==
    LET s1 == [s EXCEPT !.available = @ + 1, !.runners[pr] = @ - 1]
    IN IF s1.waiting > 0 THEN trigger(s1) ELSE s1

\* addRunner that forgets --available.
addRunnerKeepsSlot(s, id, pr) ==
    [s EXCEPT !.runners[pr] = @ + 1, !.req[id].st = "held"]

\* addRunner: lines 276-280.  The handler starts and waits for the holder.
addRunner(s, id, pr) ==
    [s EXCEPT !.runners[pr] = @ + 1, !.available = @ - 1, !.req[id].st = "held"]

\* The scan of lines 309-320 from cursor c: the priority it stops at, or Stuck
\* when it dereferences end() of an empty list or would never stop.
RECURSIVE scan(_, _, _)
scan(s, c, fuel) ==
    LET c1 == IF c = EndIt THEN begin(s.waitingPriorities) ELSE c
    IN IF fuel = 0 \/ c1 = EndIt \/ ~InList(s.waitingPriorities, c1) THEN Stuck
       ELSE IF /\ s.queue[c1] # <<>>
               /\ s.runners[c1] < currentCapacity(s, s.weight[c1])
            THEN c1
            ELSE scan(s, listNext(s.waitingPriorities, c1), fuel - 1)

\* launch that takes queue.back() instead of queue.front().
launchBack(s, f) ==
    LET n == Len(s.queue[f])
        id == s.queue[f][n]
        emptied == n = 1
    IN [s EXCEPT !.queue[f] = SubSeq(@, 1, n - 1),
                 !.p = IF emptied THEN listNext(s.waitingPriorities, f) ELSE f,
                 !.waitingPriorities = IF emptied THEN listErase(@, f) ELSE @,
                 !.totalPendingWeights = IF emptied THEN @ - s.weight[f] ELSE @,
                 !.waiting = @ - 1,
                 !.req[id].st = "granted",
                 !.cur = id,
                 !.cap = currentCapacity(s, s.weight[f]),
                 !.fRunner = "send"]

\* Lines 322-340: pop the head waiter of priority f and send it a Lock; the
\* runner is then inside w.lockPromise.send(lock).
launch(s, f) ==
    LET id == Head(s.queue[f])
        emptied == Tail(s.queue[f]) = <<>>
    IN [s EXCEPT !.queue[f] = Tail(@),
                 !.p = IF emptied THEN listNext(s.waitingPriorities, f) ELSE f,
                 !.waitingPriorities = IF emptied THEN listErase(@, f) ELSE @,
                 !.totalPendingWeights = IF emptied THEN @ - s.weight[f] ELSE @,
                 !.waiting = @ - 1,
                 !.req[id].st = "granted",
                 !.cur = id,
                 !.cap = currentCapacity(s, s.weight[f]),
                 !.fRunner = "send"]

\* The while loop of lines 305-356 up to the next send, or back to
\* wait(wakeRunner.onTrigger()) of line 301.
runnerLoop(s) ==
    IF s.available > 0 /\ s.waiting > 0
    THEN LET f == scan(s, s.p, 2 * Len(s.waitingPriorities) + 2)
         IN IF f = Stuck
            THEN [s EXCEPT !.fRunner = "stuck", !.p = Stuck, !.cur = NoId, !.cap = 0]
            ELSE launch(s, f)
    ELSE [s EXCEPT !.fRunner = "waitTrigger", !.cur = NoId, !.cap = 0]

\* The bookkeeping after send without the canBeSet() test of line 348.
sendReturnedAlwaysCounts(s) ==
    LET id == s.cur
        pr == s.req[id].prio
        gone == s.req[id].st = "dropped"
        s1 == addRunner(s, id, pr)
        s2 == IF gone
              THEN handleRelease([s1 EXCEPT !.req[id] = Ended("free")], pr)
              ELSE s1
    IN [s2 EXCEPT !.cur = NoId]

\* Lines 347-356 after send returned without error: the bookkeeping of the
\* grant and the end of the iteration (the local Lock goes out of scope).
sendReturned(s) ==
    LET id == s.cur
        pr == s.req[id].prio
        gone == s.req[id].st = "dropped"
        s1 == IF canBeSet(s.req[id]) THEN addRunner(s, id, pr) ELSE s
        s2 == IF gone
              THEN handleRelease([s1 EXCEPT !.req[id] = Ended("free")], pr)
              ELSE s1
    IN [s2 EXCEPT !.cur = NoId]

\* Lines 342-356 after send returned: the error check, the bookkeeping of the
\* grant, and the loop again.
afterSend(s) ==
    LET id == s.cur
        gone == s.req[id].st = "dropped"
    IN IF s.brokenOnDestruct = "broken"
       THEN [s EXCEPT !.fRunner = "error", !.cur = NoId, !.cap = 0,
                      !.req[id] = IF gone THEN Ended("free") ELSE @]
       ELSE runnerLoop(sendReturned(s))

----------------------------------------------------------------------------
\* lock(priority), lines 105-106: a killed lock throws broken_promise.
lockThrows(s) == s.killed

\* lock that grants whenever a slot is free (the capacity test of line 118 missing).
lockIgnoresCapacity(s, pr, id) ==
    LET w == s.weight[pr]
        s1 == [s EXCEPT !.totalPendingWeights = @ + w, !.req[id].prio = pr]
        enq(t) == [t EXCEPT !.queue[pr] = Append(@, id), !.waiting = @ + 1,
                            !.req[id] = [st |-> "queued", prio |-> pr]]
    IN IF s.queue[pr] = <<>>
       THEN IF s1.available > 0
            THEN addRunner([s1 EXCEPT !.totalPendingWeights = @ - w], id, pr)
            ELSE enq([s1 EXCEPT !.waitingPriorities = Append(@, pr)])
       ELSE enq(s)

\* lock that leaves the weight in the total on the fast path (line 120 missing).
lockKeepsWeight(s, pr, id) ==
    LET w == s.weight[pr]
        s1 == [s EXCEPT !.totalPendingWeights = @ + w, !.req[id].prio = pr]
        enq(t) == [t EXCEPT !.queue[pr] = Append(@, id), !.waiting = @ + 1,
                            !.req[id] = [st |-> "queued", prio |-> pr]]
    IN IF s.queue[pr] = <<>>
       THEN IF s1.available > 0 /\ s1.runners[pr] < currentCapacity(s1, w)
            THEN addRunner(s1, id, pr)
            ELSE enq([s1 EXCEPT !.waitingPriorities = Append(@, pr)])
       ELSE enq(s)

\* lock(priority), lines 108-138, for a call that did not throw.
lock(s, pr, id) ==
    LET w == s.weight[pr]
        s1 == [s EXCEPT !.totalPendingWeights = @ + w, !.req[id].prio = pr]
        enq(t) == [t EXCEPT !.queue[pr] = Append(@, id), !.waiting = @ + 1,
                            !.req[id] = [st |-> "queued", prio |-> pr]]
    IN IF s.queue[pr] = <<>>
       THEN IF s1.available > 0 /\ s1.runners[pr] < currentCapacity(s1, w)
            THEN addRunner([s1 EXCEPT !.totalPendingWeights = @ - w], id, pr)
            ELSE enq([s1 EXCEPT !.waitingPriorities = Append(@, pr)])
       ELSE enq(s)

\* halt that does not cancel the runner.
haltKeepsRunner(s) ==
    [s EXCEPT !.available = @ - s.concurrency,
              !.concurrency = 0,
              !.waitingPriorities = <<>>]

\* halt that does not take the slots away (lines 151-152 missing).
haltKeepsSlots(s) ==
    [s EXCEPT !.brokenOnDestruct = "broken",
              !.fRunner = IF @ = "waitTrigger" THEN "cancelled" ELSE @,
              !.waitingPriorities = <<>>]

\* halt that leaves concurrency as it is (line 152 missing).
haltKeepsConcurrency(s) ==
    [s EXCEPT !.brokenOnDestruct = "broken",
              !.fRunner = IF @ = "waitTrigger" THEN "cancelled" ELSE @,
              !.available = @ - s.concurrency,
              !.waitingPriorities = <<>>]

\* halt(): lines 144-156.  fRunner.cancel() ends a runner that waits for the
\* trigger; a runner inside send finds error.isReady() when send returns.
halt(s) ==
    [s EXCEPT !.brokenOnDestruct = "broken",
              !.fRunner = IF @ = "waitTrigger" THEN "cancelled" ELSE @,
              !.available = @ - s.concurrency,
              !.concurrency = 0,
              !.waitingPriorities = <<>>]

\* p.queue.clear() for every priority, lines 165-167.  The Waiters ws are
\* destroyed one after the other: the future of each gets broken_promise and
\* its continuation runs at once; the continuations of the waiters in retry
\* call lock() again for their priority.
RECURSIVE clearQueues(_, _, _)
clearQueues(s, ws, retry) ==
    IF ws = <<>> THEN s
    ELSE LET id == Head(ws)
             pr == s.req[id].prio
             s1 == [s EXCEPT !.queue[pr] = SelectSeq(@, LAMBDA x : x # id),
                             !.req[id] = Ended("broken")]
             s2 == IF id \in retry /\ ~lockThrows(s1)
                   THEN lock(s1, pr, NewId(s1))
                   ELSE s1
         IN clearQueues(s2, Tail(ws), retry)

\* kill that does not clear the queues (lines 165-167 missing).
killKeepsQueues(s, retry) ==
    IF s.killed THEN s ELSE halt([s EXCEPT !.killed = TRUE])

\* kill that sets the killed flag last (line 163 after the loop).
killSetsFlagLast(s, retry) ==
    IF s.killed THEN s
    ELSE LET s1 == halt(s)
             s2 == clearQueues(s1, Concat(s1.queue, SetToSeq(Priorities)), retry)
         IN [s2 EXCEPT !.killed = TRUE]

\* kill(): lines 160-169, with the waiters whose continuation retries.
kill(s, retry) ==
    IF s.killed THEN s
    ELSE LET s1 == halt([s EXCEPT !.killed = TRUE])
         IN clearQueues(s1, Concat(s1.queue, SetToSeq(Priorities)), retry)

\* A signal that runs the release handler again when it is sent a second time.
promiseSendAgain(s, id) ==
    IF ~canBeSet(s.req[id]) THEN handleRelease(s, s.req[id].prio)
    ELSE LET s1 == [s EXCEPT !.req[id] = Ended("resolved")]
         IN IF s.req[id].st = "held" THEN handleRelease(s1, s.req[id].prio) ELSE s1

\* promise.send(Void()) / promise.sendError(e) on the Lock of request id: the
\* one-shot signal is set once and its waiting handler, if any, runs.
promiseSend(s, id) ==
    IF ~canBeSet(s.req[id]) THEN s
    ELSE LET s1 == [s EXCEPT !.req[id] = Ended("resolved")]
         IN IF s.req[id].st = "held" THEN handleRelease(s1, s.req[id].prio) ELSE s1

\* Lock::release, line 80
release(s, id) == promiseSend(s, id)

\* The last copy of the caller's Lock (or of a failed Future<Lock>) goes away.
dropLock(s, id) ==
    LET st == s.req[id].st
        s1 == [s EXCEPT !.req[id] = Ended("free")]
    IN IF st = "held" THEN handleRelease(s1, s.req[id].prio)
       ELSE IF st = "granted" /\ s.fRunner = "send" /\ s.cur = id
            THEN [s EXCEPT !.req[id].st = "dropped"]
            ELSE s1

----------------------------------------------------------------------------
\* The constructor, lines 90-100, for the given concurrency and weights.
InitWith(c, wt) ==
    /\ concurrency = c
    /\ available = concurrency
    /\ waiting = 0
    /\ totalPendingWeights = 0
    /\ killed = FALSE
    /\ weight = wt
    /\ runners = [q \in Priorities |-> 0]
    /\ queue = [q \in Priorities |-> <<>>]
    /\ waitingPriorities = <<>>
    /\ fRunner = "waitTrigger"
    /\ brokenOnDestruct = "unset"
    /\ p = EndIt
    /\ cur = NoId
    /\ cap = 0
    /\ req = [i \in Ids |-> [st |-> "free", prio |-> 0]]
    /\ last = "ok"

Init == \E c \in 1..MaxConcurrency : \E wt \in WeightTables : InitWith(c, wt)

\* The runner is not in undefined behaviour, so callers can act.
Callable == fRunner # "stuck"

\* Callers can act on the lock: no resolved object waits to be destroyed.
Quiet == Callable /\ Inert(S) = {}

\* A caller calls lock(pr); the callers have fewer than limit requests.
LockWith(pr, limit) ==
    /\ Callable
    /\ IF lockThrows(S)
       THEN /\ last' = "broken_promise"
            /\ UNCHANGED pml
       ELSE /\ Quiet
            /\ Cardinality(Live(S)) < limit
            /\ \E id \in {NewId(S)} : \E t \in {lock(S, pr, id)} :
                  /\ Commit(t)
                  /\ last' = IF t.req[id].st = "queued" THEN "queued" ELSE "granted"

Release(id) ==
    /\ Callable
    /\ req[id].st \in {"granted", "held", "resolved"}
    /\ canBeSet(req[id]) => Quiet
    /\ \E t \in {release(S, id)} : Commit(t)
    /\ last' = IF canBeSet(req[id]) THEN "ok" ELSE "noop"

\* The holder fails: the Lock's promise gets an error instead of a value.
HolderFails(id) ==
    /\ Quiet
    /\ req[id].st \in {"granted", "held"}
    /\ \E t \in {promiseSend(S, id)} : Commit(t)
    /\ last' = "failed"

Drop(id) ==
    /\ Callable
    /\ req[id].st \in {"granted", "held", "resolved", "broken"}
    /\ canBeSet(req[id]) => Quiet
    /\ \E t \in {dropLock(S, id)} : Commit(t)
    /\ last' = "ok"

LockCall(pr) == LockWith(pr, MaxRequests)

\* halt() and kill() return nothing; the model notes a repeated call.
Halt ==
    /\ Quiet
    /\ \E t \in {halt(S)} : Commit(t)
    /\ last' = IF brokenOnDestruct = "broken" THEN "again" ELSE "ok"

\* kill(), called for any set of queued waiters whose continuation calls
\* lock() again as soon as it gets the error.
Kill ==
    /\ Quiet
    /\ \E retry \in SUBSET {i \in Ids : req[i].st = "queued"} :
          \E t \in {kill(S, retry)} :
             /\ Commit(t)
             /\ last' = IF killed THEN "again"
                        ELSE IF retry = {} THEN "ok"
                        ELSE IF \A i \in Ids : t.req[i].st # "queued"
                             THEN "retry_failed"
                             ELSE "retry_queued"

\* w.lockPromise.send(lock) returns to the runner.
SendReturns ==
    /\ fRunner = "send"
    /\ Inert(S) = {}
    /\ \E t \in {afterSend(S)} : Commit(t)
    /\ last' = "returned"

Next ==
    \/ \E pr \in Priorities : LockCall(pr)
    \/ \E id \in Ids : Release(id)
    \/ \E id \in Ids : HolderFails(id)
    \/ \E id \in Ids : Drop(id)
    \/ Halt
    \/ Kill
    \/ SendReturns

Spec == Init /\ [][Next]_vars

\* A lock that is never halted or killed, whose holders all let go of their
\* Lock, and whose callers keep calling lock(): every held or just granted Lock
\* is eventually dropped, and every send returns.
LiveLockCall(pr) == LockWith(pr, MaxRequests)

LiveNext ==
    \/ \E pr \in Priorities : LiveLockCall(pr)
    \/ \E id \in Ids : Drop(id)
    \/ SendReturns

\* One slot and equal weights: every priority's capacity is one slot.
LiveInit == Init /\ concurrency = 1 /\ \A q \in Priorities : weight[q] = 1

LiveSpec ==
    /\ LiveInit
    /\ [][LiveNext]_vars
    /\ \A id \in Ids : WF_vars(Drop(id))
    /\ WF_vars(SendReturns)

\* Four slots, priority 0 with weight 1 and priority 1 with weight 3, both
\* continuously backlogged: the callers refill a queue as soon as it is short,
\* and a holder lets go of its Lock, and a send returns to the dispatch loop,
\* only when both queues are refilled, so no queue is emptied by a dispatch.  Every send returns, the callers keep
\* refilling, and the holders of each priority keep letting go.
\*
\* The lock never looks at the identity of a Waiter or a Lock.  The steps of
\* ShareSpec rename the objects by their role after each operation (queued in
\* queue order, the one being resolved, the holders by priority), which keeps
\* one state for all the ways nine objects can take these roles.
RoleOrder(s) ==
    LET prs == SetToSeq(Priorities)
        holders == [q \in Priorities |->
                      SetToSeq({i \in Ids : /\ i # s.cur
                                            /\ s.req[i].st = "held"
                                            /\ s.req[i].prio = q})]
        others == {i \in Ids : /\ i # s.cur
                               /\ s.req[i].st \notin {"free", "queued", "held"}}
    IN Concat(s.queue, prs) \o (IF s.cur = NoId THEN <<>> ELSE <<s.cur>>)
         \o Concat(holders, prs) \o SetToSeq(others)

Renamed(s, order) ==
    LET new(i) == CHOOSE n \in 1..Len(order) : order[n] = i
    IN [s EXCEPT !.req = [n \in Ids |-> IF n <= Len(order) THEN s.req[order[n]]
                                                            ELSE Ended("free")],
                 !.queue = [q \in Priorities |->
                              [k \in 1..Len(s.queue[q]) |-> new(s.queue[q][k])]],
                 !.cur = IF s.cur = NoId THEN NoId ELSE new(s.cur)]

CommitByRole(u) ==
    \E order \in {RoleOrder(u)} : \E t \in {Renamed(u, order)} : Commit(t)

Backlogged == \A q \in Priorities : Len(queue[q]) >= 2

ShareLockCall(pr) ==
    /\ Quiet
    /\ Len(queue[pr]) < 2
    /\ \E id \in {NewId(S)} : \E u \in {lock(S, pr, id)} :
          /\ CommitByRole(u)
          /\ last' = IF u.req[id].st = "queued" THEN "queued" ELSE "granted"

ShareDrop(id) ==
    /\ Quiet
    /\ Backlogged
    /\ req[id].st \in {"granted", "held"}
    /\ \E u \in {dropLock(S, id)} : CommitByRole(u)
    /\ last' = "ok"

ShareDropOf(pr) == \E id \in Ids : req[id].prio = pr /\ ShareDrop(id)

ShareSendReturns ==
    /\ fRunner = "send"
    /\ Backlogged
    /\ \E u \in {afterSend(S)} : CommitByRole(u)
    /\ last' = "returned"

ShareNext ==
    \/ \E pr \in Priorities : ShareLockCall(pr)
    \/ \E pr \in Priorities : ShareDropOf(pr)
    \/ ShareSendReturns

ShareInit == InitWith(4, [q \in Priorities |-> IF q = 0 THEN 1 ELSE 3])

ShareSpec ==
    /\ ShareInit
    /\ [][ShareNext]_vars
    /\ \A pr \in Priorities : WF_vars(ShareLockCall(pr))
    /\ \A pr \in Priorities : SF_vars(ShareDropOf(pr))
    /\ WF_vars(ShareSendReturns)

----------------------------------------------------------------------------
TypeOK ==
    /\ concurrency \in Nat
    /\ available \in Int
    /\ waiting \in Nat
    /\ killed \in BOOLEAN
    /\ fRunner \in {"waitTrigger", "send", "cancelled", "error", "stuck"}
    /\ brokenOnDestruct \in {"unset", "broken"}
    /\ \A i \in Ids : req[i].st \in RequestStates /\ req[i].prio \in Priorities
    /\ (fRunner = "send") <=> (cur # NoId)

\* currentCapacity is never evaluated with totalPendingWeights = 0.
CapacityDefined ==
    \A q \in Priorities : queue[q] # <<>> => totalPendingWeights > 0

----------------------------------------------------------------------------
\* Vocabulary of the claims.

\* Neither halt() nor kill() has been called.
Running == brokenOnDestruct = "unset" /\ ~killed

\* The dispatch loop waits for its trigger and no call is in progress.
Quiescent == fRunner = "waitTrigger"

RECURSIVE SumOver(_, _)
SumOver(f, D) ==
    IF D = {} THEN 0
    ELSE LET x == CHOOSE y \in D : TRUE IN f[x] + SumOver(f, D \ {x})

\* getRunnersCount(), line 192, and getRunnersCount(priority), lines 200-203
getRunnersCount == concurrency - available
getRunnersCountOf(pr) == runners[pr]

\* getWaitersCount(), line 193, and getWaitersCount(priority), lines 195-198
getWaitersCount == waiting
getWaitersCountOf(pr) == Len(queue[pr])

\* The requests whose Lock is held with a release handler waiting for it.
HeldAt(pr) == {i \in Ids : req[i].st = "held" /\ req[i].prio = pr}
Held == {i \in Ids : req[i].st = "held"}

\* No operation is in progress: the dispatch loop is not inside a send.
BetweenOperations == fRunner \in {"waitTrigger", "cancelled", "error"}

\* The priorities that have a waiter queued.
NonEmpty == {q \in Priorities : queue[q] # <<>>}

\* halt() has been called (it resets brokenOnDestruct first, line 146).
Halted == brokenOnDestruct = "broken"

\* Requests that get their Lock in this step: from the dispatch loop, and
\* synchronously from lock().
Dispatched(i) == req[i].st = "queued" /\ req'[i].st = "granted"
FastGranted(i) == req[i].st = "free" /\ req'[i].st = "held"
\* The runner credits the slot of the grant it resolved (line 349) in this step.
Attributed(i) == i = cur /\ req[i].st = "granted" /\ req'[i].st = "held"

\* ceil(w * concurrency / sum) as the claims write it
CeilShare(w, sum) == ((w * concurrency) + sum - 1) \div sum

----------------------------------------------------------------------------
\* C1: while the lock is running, 0 <= available <= concurrency after any
\* sequence of lock(), release, drop and dispatch steps, lock() calls made
\* from a waiter's continuation included.
C1_AvailableWithinConcurrency ==
    Running => (0 <= available /\ available <= concurrency)

\* C2: capacity conservation.  While the lock is running,
\* available + sum of runners[p] = concurrency, so getRunnersCount() is the
\* sum of getRunnersCount(p).
C2_CapacityConservation ==
    Running =>
        /\ available + SumOver(runners, Priorities) = concurrency
        /\ getRunnersCount =
             SumOver([q \in Priorities |-> getRunnersCountOf(q)], Priorities)

\* Both priorities hold a slot while a request waits, at a quiescent point.
C2_Witness ==
    /\ Running /\ Quiescent
    /\ runners[0] >= 1 /\ runners[1] >= 1
    /\ waiting > 0

\* C3: no priority starvation.  On a running lock whose granted slots are all
\* eventually released, every queued waiter is eventually granted, whatever
\* the other priorities keep queued.
C3_NoStarvation ==
    \A i \in Ids : (req[i].st = "queued") ~> (req[i].st # "queued")

\* C4: FIFO per priority.  The dispatch loop resolves the head of a priority's
\* queue, lock() appends to its tail, and lock(p) is granted synchronously only
\* when no request for p is queued.
C4_FifoPerPriority ==
    [][\A i \in Ids :
          /\ Dispatched(i) =>
                /\ i = Head(queue[req[i].prio])
                /\ queue'[req[i].prio] = Tail(queue[req[i].prio])
          /\ FastGranted(i) => queue[req'[i].prio] = <<>>
          /\ (req[i].st = "free" /\ req'[i].st = "queued") =>
                queue'[req'[i].prio] = Append(queue[req'[i].prio], i)]_vars

\* A waiter is being resolved while a later request of its priority is queued.
C4_Witness ==
    /\ fRunner = "send"
    /\ req[cur].st = "granted"
    /\ queue[req[cur].prio] # <<>>

\* C5: no over-admission.  Whenever a grant is attributed to priority p, by
\* lock()'s fast path or by the dispatch loop, runners[p] before it is below
\* the capacity evaluated for that grant, so runners[p] <= capacity after it.
C5_NoOverAdmission ==
    [][\A i \in Ids :
          /\ FastGranted(i) =>
                LET pr == req'[i].prio
                    c == CeilShare(weight[pr], totalPendingWeights + weight[pr])
                IN runners[pr] < c /\ runners'[pr] <= c
          /\ Attributed(i) =>
                LET pr == req[i].prio
                IN runners[pr] < cap /\ runners'[pr] <= cap]_vars

\* C6: kill drains all.  kill() resolves every queued waiter with
\* broken_promise and leaves every queue empty; afterwards every lock() call
\* fails with broken_promise and changes nothing.
C6_KillDrainsAll ==
    [][/\ (~killed /\ killed') =>
             \A i \in Ids : req[i].st = "queued" => req'[i].st = "broken"
       /\ killed' =>
             /\ \A pr \in Priorities : queue'[pr] = <<>>
             /\ \A i \in Ids : req'[i].st # "queued"
       /\ \A pr \in Priorities :
             (killed /\ LockCall(pr)) =>
                 last' = "broken_promise" /\ UNCHANGED pml]_vars

\* lock() has failed on a killed lock whose kill() broke a queued waiter.
C6_Witness ==
    /\ killed
    /\ last = "broken_promise"
    /\ \E i \in Ids : req[i].st = "broken"

\* C7: once kill() has been called no grant is issued and dispatch never
\* restarts; releasing or dropping a grant held at kill time still takes its
\* slot back (available + 1, runners[p] - 1).
C7_NoGrantAfterKill ==
    [][killed =>
          /\ \A i \in Ids : ~Dispatched(i) /\ ~FastGranted(i) /\ ~Attributed(i)
          /\ fRunner' \in {"cancelled", "error", "send"}
          /\ fRunner' = "send" => fRunner = "send"
          /\ \A i \in Ids :
                (req[i].st = "held" /\ req'[i].st # "held") =>
                    /\ available' = available + 1
                    /\ runners'[req[i].prio] = runners[req[i].prio] - 1]_vars

\* A grant held at kill time, with a waiter queued behind it, was released
\* after kill(): its slot is back and the runner stays cancelled.
C7_Witness ==
    /\ killed
    /\ fRunner = "cancelled"
    /\ waiting > 0
    /\ \E i \in Ids : req[i].st = "resolved"
    /\ available = 0
    /\ \A pr \in Priorities : runners[pr] = 0

\* C8: after halt() without kill() no grant is issued, queued waiters stay
\* queued and get no error, lock() enqueues and does not fail, and
\* concurrency = 0 with available <= 0, also when halt() is called from a
\* waiter's continuation inside the runner's send.
C8_NoGrantAfterHalt ==
    [][(Halted /\ ~killed /\ ~killed') =>
          /\ \A i \in Ids : ~Dispatched(i) /\ ~FastGranted(i) /\ ~Attributed(i)
          /\ \A i \in Ids : req[i].st = "queued" => req'[i].st = "queued"
          /\ \A pr \in Priorities : LockCall(pr) => last' = "queued"
          /\ concurrency = 0 /\ available <= 0
          /\ concurrency' = 0 /\ available' <= 0]_vars

\* halt() was called from a waiter's continuation, the runner ended with the
\* error, a held slot came back and a later lock() was queued.
C8_Witness ==
    /\ Halted /\ ~killed
    /\ fRunner = "error"
    /\ last = "queued"
    /\ available = 0
    /\ \E i \in Ids : req[i].st = "granted"

C10_ExactlyOnceReclamation ==
    /\ \A pr \in Priorities : runners[pr] = Cardinality(HeldAt(pr))
    /\ available = concurrency - Cardinality(Held)
    /\ (\E i \in Ids : req[i].st = "broken") => killed
    /\ last = "broken_promise" => killed

\* A holder failed; its slot went to the next waiter, which is being resolved.
C10_Witness ==
    /\ Running
    /\ last = "failed"
    /\ fRunner = "send"
    /\ \E i \in Ids : req[i].st = "resolved"
\* C11: halt() and kill() are idempotent.  halt() after halt(), kill() after
\* kill() and halt() after kill() leave concurrency, available, the runner
\* counts, the queues, the waiting count and the killed flag unchanged;
\* available is not decreased a second time.
C11_HaltKillIdempotent ==
    [][/\ ((Halted /\ Halt) \/ (killed /\ Kill)) =>
             UNCHANGED <<concurrency, available, runners, queue, waiting, killed,
                         totalPendingWeights, fRunner, brokenOnDestruct, req>>
       /\ (killed /\ (Halt \/ Kill)) => UNCHANGED pml]_vars

\* halt() was called a second time, without kill(), while a grant is held and
\* a request is queued.
C11_Witness ==
    /\ last = "again"
    /\ Halted /\ ~killed
    /\ Held # {}
    /\ waiting > 0
\* C12: weighted proportionality.  With weights 1 and 3, four slots and both
\* priorities continuously backlogged while holders keep releasing, the
\* holdings converge to runners[0] = 1 and runners[1] = 3: from some point on
\* every dispatch round ends with that split, and rounds keep ending.
C12_WeightedProportionality ==
    /\ <>[](Quiescent => (runners[0] = 1 /\ runners[1] = 3))
    /\ []<>(Quiescent /\ runners[0] = 1 /\ runners[1] = 3)
\* The scenario of C13: two slots, weights 1 and 1, between operations.
Scenario ==
    /\ concurrency = 2 /\ \A q \in Priorities : weight[q] = 1
    /\ Running

ScenarioAt(r0, r1, av, w1) ==
    /\ Scenario /\ Quiescent
    /\ runners[0] = r0 /\ runners[1] = r1 /\ available = av
    /\ queue[0] = <<>> /\ Len(queue[1]) = w1

\* A grant of priority 0 was released and the runner is sending priority 1's
\* waiter its Lock.
ScenarioSending ==
    /\ Scenario /\ fRunner = "send"
    /\ req[cur] = [st |-> "granted", prio |-> 1]
    /\ runners[0] = 1 /\ runners[1] = 0 /\ available = 1
    /\ \A q \in Priorities : queue[q] = <<>>

\* C13: with concurrency 2 and weights [1,1], lock(0) twice is granted at once
\* (runners[0] = 2, available = 0), lock(1) is then queued, and when a grant of
\* priority 0 is released the dispatch loop grants priority 1's waiter: it ends
\* with runners = [1,1], available = 0, no waiter and activeWeightSum = 0.
C13_ScenarioTwoSlots ==
    [][/\ (ScenarioAt(0, 0, 2, 0) /\ LockCall(0)) =>
             last' = "granted" /\ ScenarioAt(1, 0, 1, 0)'
       /\ (ScenarioAt(1, 0, 1, 0) /\ LockCall(0)) =>
             last' = "granted" /\ ScenarioAt(2, 0, 0, 0)'
       /\ (ScenarioAt(2, 0, 0, 0) /\ LockCall(1)) =>
             last' = "queued" /\ ScenarioAt(2, 0, 0, 1)' /\ waiting' = 1
       /\ (/\ ScenarioAt(2, 0, 0, 1)
           /\ \E i \in HeldAt(0) : Release(i) \/ Drop(i)) =>
             ScenarioSending' /\ cur' = Head(queue[1]) /\ waiting' = 0
       /\ (ScenarioSending /\ SendReturns) =>
             /\ ScenarioAt(1, 1, 0, 0)'
             /\ waiting' = 0 /\ totalPendingWeights' = 0
             /\ req'[cur].st = "held"]_vars

\* release() gave back a grant of priority 0 and the runner is sending the
\* waiter of priority 1, which was queued behind the two grants, its Lock.
C13_Witness ==
    /\ ScenarioSending
    /\ last = "ok"
    /\ totalPendingWeights = 0
    /\ \E i \in Ids : req[i].st = "resolved"
\* C14: at every point between operations, after any sequence of lock(),
\* release, dispatch, halt() and kill(), getWaitersCount() is the sum of
\* getWaitersCount(p) over the priorities.
C14_WaitingIsQueueTotal ==
    BetweenOperations =>
        getWaitersCount =
            SumOver([q \in Priorities |-> getWaitersCountOf(q)], Priorities)

\* C15: at every point between operations, after any sequence of lock(),
\* release, dispatch, halt() and kill(), totalPendingWeights is the sum of
\* weight[p] over the priorities whose queue is not empty.
C15_PendingWeightsOfNonEmpty ==
    BetweenOperations => totalPendingWeights = SumOver(weight, NonEmpty)

\* C16: at every point between operations, after any sequence of lock(),
\* release, dispatch, halt() and kill(), a priority is in waitingPriorities if
\* and only if its queue is not empty, and it is there at most once.
C16_ActiveSetMembership ==
    BetweenOperations =>
        /\ \A q \in Priorities : InList(waitingPriorities, q) <=> queue[q] # <<>>
        /\ \A i, j \in 1..Len(waitingPriorities) :
              waitingPriorities[i] = waitingPriorities[j] => i = j
\* The condition under which C17 says lock(pr) grants at once.
Admits(pr) ==
    /\ queue[pr] = <<>>
    /\ available > 0
    /\ runners[pr] < CeilShare(weight[pr], totalPendingWeights + weight[pr])

\* C17: on a lock that is not killed, lock(p) grants synchronously if and only
\* if queue[p] is empty, available > 0 and runners[p] is below
\* ceil(weight[p] * concurrency / (totalPendingWeights + weight[p])).  Then only
\* available (-1) and runners[p] (+1) change; otherwise one waiter is appended
\* to queue[p], waiting grows by 1 and available and the runner counts stay.
C17_AdmissionDecision ==
    [][\A pr \in Priorities :
          (~killed /\ LockCall(pr)) =>
              /\ (last' = "granted") <=> Admits(pr)
              /\ Admits(pr) =>
                    /\ available' = available - 1
                    /\ runners' = [runners EXCEPT ![pr] = @ + 1]
                    /\ UNCHANGED <<queue, waiting, waitingPriorities,
                                   totalPendingWeights>>
              /\ ~Admits(pr) =>
                    /\ \E i \in Ids :
                          /\ req[i].st = "free"
                          /\ queue' = [queue EXCEPT ![pr] = Append(@, i)]
                    /\ waiting' = waiting + 1
                    /\ UNCHANGED <<available, runners>>]_vars

\* lock() queued a request although a slot was free and its priority had no
\* waiter: the priority was at its capacity.
C17_Witness ==
    /\ Running
    /\ last = "queued"
    /\ available > 0
    /\ \E q \in Priorities : Len(queue[q]) = 1 /\ runners[q] > 0
\* The states in which the runner can next evaluate the condition of its while
\* loop (line 305): when the send in progress returns, and when a holder lets
\* go while the runner waits for its trigger.
LoopEntries ==
    (IF fRunner = "send" /\ brokenOnDestruct = "unset"
     THEN {sendReturned(S)} ELSE {})
    \cup
    (IF fRunner = "waitTrigger"
     THEN {[S EXCEPT !.available = @ + 1, !.runners[req[i].prio] = @ - 1,
                     !.req[i] = Ended("free")] : i \in Held}
     ELSE {})

\* The priorities the scan of lines 309-320 can stop at.
Eligible(s) ==
    {q \in Priorities : /\ InList(s.waitingPriorities, q)
                        /\ s.queue[q] # <<>>
                        /\ s.runners[q] < currentCapacity(s, s.weight[q])}

\* C18: whenever the dispatch loop's condition available > 0 and waiting > 0
\* holds on a running lock, waitingPriorities is not empty and holds a priority
\* with a waiter and runners below its capacity, and the scan stops at one
\* within one pass over the list: it never spins and never dereferences end().
C18_ScanTerminates ==
    /\ fRunner # "stuck"
    /\ Running =>
          \A s \in LoopEntries :
              (s.available > 0 /\ s.waiting > 0) =>
                  /\ s.waitingPriorities # <<>>
                  /\ Eligible(s) # {}
                  /\ scan(s, s.p, Len(s.waitingPriorities)) \in Eligible(s)

\* A waiter was dispatched, and when its send returns the scan has to pass a
\* priority that has a waiter but is at its capacity.
C18_Witness ==
    /\ Running
    /\ fRunner = "send"
    /\ \E s \in LoopEntries :
          /\ s.available > 0 /\ s.waiting > 0
          /\ scan(s, s.p, 1) = Stuck
          /\ scan(s, s.p, Len(s.waitingPriorities)) \in Eligible(s)
\* C19: when send returns on a running lock and the waiter's continuation has
\* released the grant, the dispatch loop leaves available and runners as they
\* are, starts no release handler and goes on dispatching; when the grant is
\* still held, available goes down by 1, runners[p] up by 1 and one release
\* handler is started.
C19_ReentrantRelease ==
    [][(SendReturns /\ ~Halted) =>
          /\ req[cur].st = "resolved" =>
                /\ available' = available /\ runners' = runners
                /\ Held' = Held
                /\ req'[cur] = req[cur]
                /\ IF available > 0 /\ waiting > 0
                   THEN fRunner' = "send" /\ \E i \in Ids : Dispatched(i)
                   ELSE fRunner' = "waitTrigger"
          /\ req[cur].st = "granted" =>
                /\ available' = available - 1
                /\ runners' = [runners EXCEPT ![req[cur].prio] = @ + 1]
                /\ Held' = Held \cup {cur}]_vars

\* A send returned after the continuation had released the grant, and the
\* runner gave the slot to the next waiter.
C19_Witness ==
    /\ Running
    /\ last = "returned"
    /\ fRunner = "send"
    /\ available > 0
    /\ \E i \in Ids : i # cur /\ req[i].st = "resolved"
\* C20: kill() sets killed before it resolves any queued waiter, so a waiter
\* whose continuation calls lock() again during kill() gets broken_promise and
\* is not enqueued: kill() creates no request, every queue is empty when it
\* returns, and the queues stay empty from then on.
C20_KillOrdering ==
    [][/\ (~killed /\ killed') =>
             /\ last' \in {"ok", "retry_failed"}
             /\ \A q \in Priorities : queue'[q] = <<>>
             /\ \A i \in Ids : req[i].st = "free" => req'[i].st = "free"
             /\ \A i \in Ids : req[i].st = "queued" <=> req'[i].st = "broken"
       /\ killed => \A q \in Priorities : queue'[q] = <<>>]_vars

\* kill() broke a waiter whose continuation called lock() again and failed.
C20_Witness ==
    /\ killed
    /\ last = "retry_failed"
    /\ \E i \in Ids : req[i].st = "broken"
    /\ \A q \in Priorities : queue[q] = <<>>
\* C21: work conservation.  On a running lock whose dispatch loop waits for
\* its trigger, no slot is free while a request is queued (available > 0
\* implies waiting = 0); so lock() is granted at once when a slot is free and
\* nothing is queued, and a release that frees a slot while requests are
\* queued wakes the loop, which dispatches a waiter.
C21_WorkConservation ==
    /\ []((Running /\ Quiescent) => (available > 0 => waiting = 0))
    /\ [][(Running /\ Quiescent) =>
            /\ \A pr \in Priorities :
                  (LockCall(pr) /\ available > 0 /\ waiting = 0) =>
                      last' = "granted"
            /\ \A i \in Held :
                  (req'[i].st # "held" /\ waiting > 0 /\ available + 1 > 0) =>
                      /\ fRunner' = "send"
                      /\ \E j \in Ids : Dispatched(j)]_vars

\* With one slot, the holder released its Lock while two requests were
\* queued: the loop woke and is sending the first of them its Lock.
C21_Witness ==
    /\ Running /\ concurrency = 1
    /\ fRunner = "send"
    /\ last = "ok"
    /\ req[cur].st = "granted"
    /\ waiting > 0
    /\ Held = {}
    /\ \E i \in Ids : req[i].st = "resolved"
====
